---- MODULE Spec2Model ----
(***************************************************************************)
(* A model of the Vanstein bytecode engine (vanstein/bytecode/engine.py):  *)
(* VansteinEngine.run_context, its native-call bridge __run_natively, and  *)
(* the context (frame) operations the engine calls.  The dispatch loop is  *)
(* modelled one iteration per step; `active` is the frame the loop is      *)
(* currently working on (0 when run_context is not executing).             *)
(***************************************************************************)
EXTENDS Integers, Sequences, FiniteSets, TLC

\* The number of root frames the driver starts with is 1..MaxRoots.
MaxRoots == 2
\* The number of run_context calls on frames that are neither PENDING nor RUNNING.
MaxMisuse == 1

VARIABLES
    ctxs,                 \* the frames (contexts), indexed 1..Len(ctxs)
    current_context,      \* engine.current_context (0: None)
    current_instruction,  \* engine.current_instruction
    active,               \* frame whose run_context call is executing (0: none)
    ret,                  \* outcome of the last run_context call
    call,                 \* the frame handed to the last run_context call, as it was
    edges,                \* every change <<from, to>> of a frame's state so far
    hist,                 \* what the dispatch loop did in its last iteration
    misuse                \* run_context calls so far on SUSPENDED, FINISHED or ERRORED frames

vars == <<ctxs, current_context, current_instruction, active, ret, call, edges, hist, misuse>>

----------------------------------------------------------------------------
\* Values that live on operand stacks.

IntV(n) == [t |-> "int", v |-> n]
NoneV == [t |-> "none", v |-> 0]
\* inspect.isbuiltin holds of these: 1 is addition, 2 always raises TypeError,
\* 3 is subtraction.
BuiltinV(k) == [t |-> "builtin", v |-> k]
\* A class object (type(x) is type) that inherits the builtin object.__new__.
TypeV == [t |-> "type", v |-> 0]
\* A class that defines __new__ in Python: its __new__ is a plain function over
\* program p, not a builtin.
PyNewV(p) == [t |-> "type", v |-> p]
\* The instance a class object constructs from n arguments.
InstanceV(n) == [t |-> "instance", v |-> n]
\* An object carrying a _native_invoke attribute that is not callable.
MarkedV == [t |-> "marked", v |-> 0]
\* A callable carrying a _native_invoke attribute; it returns its argument count.
NativeFnV == [t |-> "nativefn", v |-> 0]
\* A plain interpreted function whose code is program p.
FunctionV(p) == [t |-> "function", v |-> p]
\* A VSWrappedFunction around program p.
WrappedV(p) == [t |-> "wrapped", v |-> p]

\* Instructions: opname, integer arg, and the constant a LOAD_CONST carries.
Ins(op, arg, val) == [opname |-> op, arg |-> arg, val |-> val]
LOAD(val) == Ins("LOAD_CONST", 0, val)
FAST(i) == Ins("LOAD_FAST", i, NoneV)
CALL(n) == Ins("CALL_FUNCTION", n, NoneV)
POP == Ins("POP_TOP", 0, NoneV)
RET == Ins("RETURN_VALUE", 0, NoneV)
RAISE == Ins("RAISE_VARARGS", 0, NoneV)
FOO == Ins("FOO_BAR", 0, NoneV)
NoInstruction == Ins("NONE", 0, NoneV)


----------------------------------------------------------------------------
\* The instruction streams (code objects) of the model, by number.  Streams 2,
\* 8, 9, 10 and 14 are the code of interpreted functions called from other
\* streams; streams 16 and 17 are not well formed (their operands are not on
\* the stack); stream 20 subtracts its second argument from its first.
Code(p) ==
    CASE p = 1 -> <<LOAD(BuiltinV(1)), LOAD(IntV(2)), LOAD(IntV(3)), CALL(2), RET>>
      [] p = 2 -> <<LOAD(PyNewV(8)), LOAD(IntV(1)), CALL(1), RET>>
      [] p = 3 -> <<LOAD(IntV(7)), CALL(0), RET>>
      [] p = 4 -> <<LOAD(IntV(1)), FOO, RET>>
      [] p = 5 -> <<LOAD(WrappedV(9)), CALL(0), RET>>
      [] p = 6 -> <<LOAD(FunctionV(2)), CALL(0), RET>>
      [] p = 7 -> <<LOAD(BuiltinV(3)), LOAD(IntV(5)), LOAD(IntV(3)), CALL(2),
                    LOAD(TypeV), LOAD(IntV(1)), CALL(1), POP,
                    LOAD(NativeFnV), LOAD(IntV(4)), CALL(1), POP,
                    LOAD(MarkedV), CALL(0), RET>>
      [] p = 8 -> <<LOAD(BuiltinV(1)), FAST(0), LOAD(IntV(1)), CALL(2), RET>>
      [] p = 9 -> <<LOAD(BuiltinV(2)), CALL(0), RET>>
      [] p = 10 -> <<LOAD(BuiltinV(2)), CALL(0), POP, LOAD(BuiltinV(2)), CALL(0), RET>>
      [] p = 11 -> <<LOAD(WrappedV(10)), CALL(0), RET>>
      [] p = 12 -> <<LOAD(FunctionV(8)), LOAD(IntV(1)), CALL(1),
                     LOAD(WrappedV(20)), LOAD(IntV(7)), LOAD(IntV(3)), CALL(2), RET>>
      [] p = 14 -> <<LOAD(IntV(1)), RAISE, RET>>
      [] p = 15 -> <<LOAD(WrappedV(14)), CALL(0), RET>>
      [] p = 16 -> <<POP, FOO>>
      [] p = 17 -> <<CALL(1), RET>>
      [] p = 18 -> <<LOAD(IntV(1)), LOAD(IntV(2)), POP, RET>>
      [] p = 20 -> <<LOAD(BuiltinV(3)), FAST(0), FAST(1), CALL(2), RET>>
      [] OTHER -> <<>>

RootPrograms == {1, 2, 3, 4, 5, 6, 7, 11, 12, 14, 15, 16, 17, 18}

\* The opcode handler table (vanstein.bytecode.instructions).
Handlers == {"LOAD_CONST", "LOAD_FAST", "POP_TOP", "RETURN_VALUE", "RAISE_VARARGS"}

Terminal == {"FINISHED", "ERRORED"}
States == {"PENDING", "RUNNING", "SUSPENDED", "ERRORED", "FINISHED"}

----------------------------------------------------------------------------
\* Frames.  A world w = [ctxs, edges] is threaded through the frame operations
\* so that every state assignment is recorded.  A frame's `fired` lists the
\* calls of its callbacks so far: which list, which index, the frame called
\* back, and the two frames' states when the call was made; its `raised`
\* counts the faults raised on it through safe_raise.

\* _VSContext(fn): a fresh frame over program p.
NewContext(p) ==
    [state |-> "PENDING", pointer |-> 0, stack |-> <<>>, code |-> p,
     prev_ctx |-> 0, next_ctx |-> 0,
     done_callbacks |-> <<>>, exception_callbacks |-> <<>>,
     args |-> <<>>, result |-> NoneV, fault |-> "none", cause |-> "none",
     fired |-> <<>>, raised |-> 0]

World == [ctxs |-> ctxs, edges |-> edges]

\* context.state = s
SetState(w, f, s) ==
    [w EXCEPT !.ctxs[f].state = s,
              !.edges = IF w.ctxs[f].state = s THEN @ ELSE @ \cup {<<w.ctxs[f].state, s>>}]

\* context.push(v)
Push(w, f, v) == [w EXCEPT !.ctxs[f].stack = Append(@, v)]

\* context.pop(), n times: the stack that is left.
Drop(stack, n) == SubSeq(stack, 1, Len(stack) - n)

\* The n values popped one by one from the top, in the order popped.
PopArgs(stack, n) == [i \in 1..n |-> stack[Len(stack) - i + 1]]

\* reversed(args)
Reversed(s) == [i \in 1..Len(s) |-> s[Len(s) - i + 1]]

\* context._on_result_cb(result): push the value, flip the frame to RUNNING.
on_result_cb(w, f, result) == SetState(Push(w, f, result), f, "RUNNING")

\* safe_raise(ctx, exc): mark the frame ERRORED with the fault attached and
\* route the fault to its exception callbacks, in registration order; each
\* callback is the caller's _on_exception_cb, which raises on the caller.
RECURSIVE safe_raise(_, _, _, _), fire_exception(_, _, _, _)
safe_raise(w, f, kind, cause) ==
    LET w1 == SetState(w, f, "ERRORED")
        w2 == [w1 EXCEPT !.ctxs[f].fault = kind, !.ctxs[f].cause = cause,
                         !.ctxs[f].raised = @ + 1]
    IN  fire_exception(w2, f, 1, cause)

fire_exception(w, f, i, cause) ==
    IF i > Len(w.ctxs[f].exception_callbacks) THEN w
    ELSE LET c == w.ctxs[f].exception_callbacks[i]
             w1 == [w EXCEPT !.ctxs[f].fired = Append(@,
                        [kind |-> "exception", idx |-> i, dst |-> c,
                         srcstate |-> w.ctxs[f].state, dststate |-> w.ctxs[c].state])]
         IN  fire_exception(safe_raise(w1, c, "PropagatedFault", cause), f, i + 1, cause)

\* context.finish(): call the result callbacks, in registration order.
RECURSIVE fire_result(_, _, _)
fire_result(w, f, i) ==
    IF i > Len(w.ctxs[f].done_callbacks) THEN w
    ELSE LET c == w.ctxs[f].done_callbacks[i]
             w1 == [w EXCEPT !.ctxs[f].fired = Append(@,
                        [kind |-> "result", idx |-> i, dst |-> c,
                         srcstate |-> w.ctxs[f].state, dststate |-> w.ctxs[c].state])]
         IN  fire_result(on_result_cb(w1, c, w.ctxs[f].result), f, i + 1)

finish(w, f) == fire_result(w, f, 1)

\* context.next_instruction(): the instruction at the pointer; the pointer advances.
HasNext(c) == c.pointer < Len(Code(c.code))
Fetch(c) == Code(c.code)[c.pointer + 1]
Advance(w, f) == [w EXCEPT !.ctxs[f].pointer = @ + 1]


\* The opcode handlers: the world after the handler ran, or the host exception
\* it raised (exc # "none"; the world is then as the handler left it).
Handle(w, f, ins) ==
    LET c == w.ctxs[f]
        top == Len(c.stack)
    IN  CASE ins.opname = "LOAD_CONST" -> [w |-> Push(w, f, ins.val), exc |-> "none"]
          [] ins.opname = "LOAD_FAST" ->
                IF ins.arg < Len(c.args)
                THEN [w |-> Push(w, f, c.args[ins.arg + 1]), exc |-> "none"]
                ELSE [w |-> w, exc |-> "IndexError"]
          [] ins.opname = "POP_TOP" ->
                IF top > 0
                THEN [w |-> [w EXCEPT !.ctxs[f].stack = Drop(@, 1)], exc |-> "none"]
                ELSE [w |-> w, exc |-> "IndexError"]
          [] ins.opname = "RETURN_VALUE" ->
                IF top > 0
                THEN [w |-> SetState([w EXCEPT !.ctxs[f].result = c.stack[top],
                                               !.ctxs[f].stack = Drop(@, 1)],
                                     f, "FINISHED"),
                      exc |-> "none"]
                ELSE [w |-> w, exc |-> "IndexError"]
          [] ins.opname = "RAISE_VARARGS" ->
                IF top > 0
                THEN [w |-> safe_raise([w EXCEPT !.ctxs[f].stack = Drop(@, 1)],
                                       f, "HandlerFault", "HandlerFault"),
                      exc |-> "none"]
                ELSE [w |-> w, exc |-> "IndexError"]
          [] OTHER -> [w |-> w, exc |-> "NotImplementedError"]

----------------------------------------------------------------------------
\* The host callables.

\* callable(fn)
Callable(fn) == fn.t \in {"builtin", "nativefn", "type", "function", "wrapped"}

\* fn(*args) for a host callable: the value returned, or ok = FALSE when it raises.
\* Only callees that pass the test of line 101 are invoked here; a class with a
\* Python __new__ never is.
Invoke(fn, args) ==
    CASE fn.t = "builtin" /\ fn.v = 1 ->
            IF Len(args) = 2 /\ args[1].t = "int" /\ args[2].t = "int"
            THEN [ok |-> TRUE, val |-> IntV(args[1].v + args[2].v)]
            ELSE [ok |-> FALSE, val |-> NoneV]
      [] fn.t = "builtin" /\ fn.v = 3 ->
            IF Len(args) = 2 /\ args[1].t = "int" /\ args[2].t = "int"
            THEN [ok |-> TRUE, val |-> IntV(args[1].v - args[2].v)]
            ELSE [ok |-> FALSE, val |-> NoneV]
      [] fn = TypeV -> [ok |-> TRUE, val |-> InstanceV(Len(args))]
      [] fn.t = "nativefn" -> [ok |-> TRUE, val |-> IntV(Len(args))]
      [] OTHER -> [ok |-> FALSE, val |-> NoneV]

----------------------------------------------------------------------------
\* A native call that passes the arguments in the order they were popped.
run_natively_unreversed(w, f, ins) ==
    LET stack == w.ctxs[f].stack
        number_of_args == ins.arg
        args == PopArgs(stack, number_of_args)
        fn == stack[Len(stack) - number_of_args]
        w1 == [w EXCEPT !.ctxs[f].stack = Drop(@, number_of_args + 1)]
        r == Invoke(fn, args)
    IN  IF ~Callable(fn)
        THEN [w |-> safe_raise(w1, f, "NotCallable", "NotCallable"), result |-> NoneV]
        ELSE IF ~r.ok
        THEN [w |-> safe_raise(w1, f, "NativeInvocationFault", "NativeInvocationFault"),
              result |-> NoneV]
        ELSE [w |-> w1, result |-> r.val]

\* VansteinEngine.__run_natively(context, instruction): the world after the
\* call and the value returned (None when the fault went to safe_raise).
run_natively(w, f, ins) ==
    LET stack == w.ctxs[f].stack
        number_of_args == ins.arg
        args == Reversed(PopArgs(stack, number_of_args))
        fn == stack[Len(stack) - number_of_args]
        w1 == [w EXCEPT !.ctxs[f].stack = Drop(@, number_of_args + 1)]
        r == Invoke(fn, args)
    IN  IF ~Callable(fn)
        THEN [w |-> safe_raise(w1, f, "NotCallable", "NotCallable"), result |-> NoneV]
        ELSE IF ~r.ok
        THEN [w |-> safe_raise(w1, f, "NativeInvocationFault", "NativeInvocationFault"),
              result |-> NoneV]
        ELSE [w |-> w1, result |-> r.val]

\* A CALL_FUNCTION that does not suspend the frame.
Suspend_skipped(w, f) == w

\* Line 90: the frame is suspended as soon as CALL_FUNCTION is seen.
Suspend(w, f) == SetState(w, f, "SUSPENDED")

\* Lines 93-97: STACK[-(arg + 1)], a class replaced by its __new__: the builtin
\* object.__new__, or the Python function the class defines.
bottom_of_stack(c, ins) ==
    LET v == c.stack[Len(c.stack) - ins.arg]
    IN  IF v.t = "type"
        THEN IF v = TypeV THEN BuiltinV(0) ELSE FunctionV(v.v)
        ELSE v

\* A native test that forgets the _native_invoke mark.
IsNative_builtin_only(v) == v.t = "builtin"

\* Line 101: inspect.isbuiltin(x) or hasattr(x, "_native_invoke")
IsNative(v) == v.t \in {"builtin", "nativefn", "marked"}

\* Lines 111-118: the values a new context can be made from.
IsInterpreted(v) == v.t \in {"function", "wrapped"}

\* Lines 103-107: run natively, set the frame RUNNING, push the result.
call_native(w, f, ins) ==
    LET r == run_natively(w, f, ins)
    IN  Push(SetState(r.w, f, "RUNNING"), f, r.result)

\* A context switch that leaves the function object on the calling frame's stack.
switch_context_keeps_fn(w, f, ins, fn) ==
    LET stack == w.ctxs[f].stack
        args == Reversed(PopArgs(stack, ins.arg))
        new_ctx == [NewContext(fn.v) EXCEPT
                        !.prev_ctx = f,
                        !.state = "PENDING",
                        !.done_callbacks = <<f>>,
                        !.exception_callbacks = <<f>>,
                        !.args = args]
    IN  [w EXCEPT !.ctxs = Append([@ EXCEPT ![f].next_ctx = Len(w.ctxs) + 1,
                                            ![f].stack = Drop(stack, ins.arg)],
                                  new_ctx)]

\* A context switch that does not set the new context's caller link.
switch_context_no_prev(w, f, ins, fn) ==
    LET stack == w.ctxs[f].stack
        args == Reversed(PopArgs(stack, ins.arg))
        new_ctx == [NewContext(fn.v) EXCEPT
                        !.state = "PENDING",
                        !.done_callbacks = <<f>>,
                        !.exception_callbacks = <<f>>,
                        !.args = args]
    IN  [w EXCEPT !.ctxs = Append([@ EXCEPT ![f].next_ctx = Len(w.ctxs) + 1,
                                            ![f].stack = Drop(stack, ins.arg + 1)],
                                  new_ctx)]

\* A context switch that hands over the arguments in the order they were popped.
switch_context_unreversed(w, f, ins, fn) ==
    LET stack == w.ctxs[f].stack
        args == PopArgs(stack, ins.arg)
        new_ctx == [NewContext(fn.v) EXCEPT
                        !.prev_ctx = f,
                        !.state = "PENDING",
                        !.done_callbacks = <<f>>,
                        !.exception_callbacks = <<f>>,
                        !.args = args]
    IN  [w EXCEPT !.ctxs = Append([@ EXCEPT ![f].next_ctx = Len(w.ctxs) + 1,
                                            ![f].stack = Drop(stack, ins.arg + 1)],
                                  new_ctx)]

\* A context switch that registers no exception callback on the new context.
switch_context_no_exception_cb(w, f, ins, fn) ==
    LET stack == w.ctxs[f].stack
        args == Reversed(PopArgs(stack, ins.arg))
        new_ctx == [NewContext(fn.v) EXCEPT
                        !.prev_ctx = f,
                        !.state = "PENDING",
                        !.done_callbacks = <<f>>,
                        !.args = args]
    IN  [w EXCEPT !.ctxs = Append([@ EXCEPT ![f].next_ctx = Len(w.ctxs) + 1,
                                            ![f].stack = Drop(stack, ins.arg + 1)],
                                  new_ctx)]

\* Lines 111-142: the new context, linked, with its callbacks and arguments;
\* the arguments and the function are popped off the calling frame.
switch_context(w, f, ins, fn) ==
    LET stack == w.ctxs[f].stack
        args == Reversed(PopArgs(stack, ins.arg))
        new_ctx == [NewContext(fn.v) EXCEPT
                        !.prev_ctx = f,
                        !.state = "PENDING",
                        !.done_callbacks = <<f>>,
                        !.exception_callbacks = <<f>>,
                        !.args = args]
    IN  [w EXCEPT !.ctxs = Append([@ EXCEPT ![f].next_ctx = Len(w.ctxs) + 1,
                                            ![f].stack = Drop(stack, ins.arg + 1)],
                                  new_ctx)]


----------------------------------------------------------------------------
\* The state machine.

Outcome(kind, ctx, exc) == [kind |-> kind, ctx |-> ctx, exc |-> exc]

\* What one loop iteration did: the frame it worked on, the frames as they
\* were before it, and the instruction it fetched.
Did(op, f, ins) == [op |-> op, ctx |-> f, pre |-> ctxs, ins |-> ins]

Commit(w) ==
    /\ ctxs' = w.ctxs
    /\ edges' = w.edges

Init ==
    /\ \E n \in 1..MaxRoots :
          ctxs \in [1..n -> {NewContext(p) : p \in RootPrograms}]
    \* The numbering of the root frames carries no meaning: they are listed by stream.
    /\ \A i \in 1..(Len(ctxs) - 1) : ctxs[i].code <= ctxs[i + 1].code
    /\ current_context = 0
    /\ current_instruction = NoInstruction
    /\ active = 0
    /\ ret = Outcome("idle", 0, "none")
    /\ call = [ctx |-> 0, frame |-> NewContext(0)]
    /\ edges = {}
    /\ misuse = 0
    /\ hist = [op |-> "init", ctx |-> 0, pre |-> <<>>, ins |-> NoInstruction]

\* Lines 67-69: run_context(context) is entered; the frame is set RUNNING.
run_context(f) ==
    /\ active = 0
    /\ f \in 1..Len(ctxs)
    /\ Commit(SetState(World, f, "RUNNING"))
    /\ current_context' = f
    /\ active' = f
    /\ ret' = Outcome("running", 0, "none")
    /\ call' = [ctx |-> f, frame |-> ctxs[f]]
    /\ hist' = Did("enter", f, NoInstruction)
    /\ UNCHANGED current_instruction

\* The driver of the design: it hands the engine frames that are PENDING or RUNNING.
DriverRun(f) ==
    /\ f \in 1..Len(ctxs)
    /\ ctxs[f].state \in {"PENDING", "RUNNING"}
    /\ run_context(f)
    /\ UNCHANGED misuse

\* A caller that hands the engine a frame that is SUSPENDED, FINISHED or ERRORED.
MisuseRun(f) ==
    /\ f \in 1..Len(ctxs)
    /\ ctxs[f].state \notin {"PENDING", "RUNNING"}
    /\ misuse < MaxMisuse
    /\ run_context(f)
    /\ misuse' = misuse + 1

\* Lines 71-75: the frame is FINISHED: finish() and return None.
LoopFinished ==
    /\ active # 0
    /\ ctxs[active].state = "FINISHED"
    /\ Commit(finish(World, active))
    /\ active' = 0
    /\ ret' = Outcome("none", 0, "none")
    /\ hist' = Did("finished", active, NoInstruction)
    /\ UNCHANGED <<current_context, current_instruction, call, misuse>>

\* Lines 77-78: the frame is ERRORED: return None.
LoopErrored ==
    /\ active # 0
    /\ ctxs[active].state = "ERRORED"
    /\ active' = 0
    /\ ret' = Outcome("none", 0, "none")
    /\ hist' = Did("errored", active, NoInstruction)
    /\ UNCHANGED <<ctxs, edges, current_context, current_instruction, call, misuse>>

\* A loop that lacks the ERRORED test of lines 77-78.
Fetching_ignores_errored == active # 0 /\ ctxs[active].state # "FINISHED"

\* The loop goes on to fetch an instruction (lines 71, 77 are both false).
Fetching == active # 0 /\ ctxs[active].state \notin Terminal

\* Line 80: next_instruction() fails past the end of the stream; the host
\* exception leaves run_context.
LoopFetchFault ==
    /\ Fetching
    /\ ~HasNext(ctxs[active])
    /\ active' = 0
    /\ ret' = Outcome("raise", 0, "IndexError")
    /\ hist' = Did("fetchfault", active, NoInstruction)
    /\ UNCHANGED <<ctxs, edges, current_context, current_instruction, call, misuse>>

\* Lines 86-93 with a stack shorter than arg + 1: the frame is SUSPENDED and the
\* IndexError of line 93 leaves run_context.
LoopCallStackFault ==
    /\ Fetching
    /\ HasNext(ctxs[active])
    /\ LET ins == Fetch(ctxs[active])
       IN  /\ ins.opname = "CALL_FUNCTION"
           /\ Len(ctxs[active].stack) < ins.arg + 1
           /\ Commit(Suspend(Advance(World, active), active))
           /\ current_instruction' = ins
           /\ hist' = Did("stackfault", active, ins)
    /\ active' = 0
    /\ ret' = Outcome("raise", 0, "IndexError")
    /\ UNCHANGED <<current_context, call, misuse>>

\* Lines 86-109: CALL_FUNCTION of a native callable; the loop continues.
LoopCallNative ==
    /\ Fetching
    /\ HasNext(ctxs[active])
    /\ LET ins == Fetch(ctxs[active])
           w1 == Suspend(Advance(World, active), active)
       IN  /\ ins.opname = "CALL_FUNCTION"
           /\ Len(ctxs[active].stack) >= ins.arg + 1
           /\ IsNative(bottom_of_stack(ctxs[active], ins))
           /\ Commit(call_native(w1, active, ins))
           /\ current_instruction' = ins
           /\ hist' = Did("native", active, ins)
    /\ UNCHANGED <<current_context, active, ret, call, misuse>>

\* Lines 86-98, 111-144: CALL_FUNCTION of an interpreted callable; the new
\* context is returned.
LoopCallSwitch ==
    /\ Fetching
    /\ HasNext(ctxs[active])
    /\ LET ins == Fetch(ctxs[active])
           w1 == Suspend(Advance(World, active), active)
           fn == bottom_of_stack(ctxs[active], ins)
       IN  /\ ins.opname = "CALL_FUNCTION"
           /\ Len(ctxs[active].stack) >= ins.arg + 1
           /\ ~IsNative(fn)
           /\ IsInterpreted(fn)
           /\ Commit(switch_context(w1, active, ins, fn))
           /\ current_instruction' = ins
           /\ hist' = Did("switch", active, ins)
           /\ ret' = Outcome("ctx", Len(ctxs) + 1, "none")
    /\ active' = 0
    /\ UNCHANGED <<current_context, call, misuse>>

\* Lines 86-98, 116-118: CALL_FUNCTION of a value no context can be made from:
\* _VSContext(value) raises and the TypeError leaves run_context.
LoopCallNotCallable ==
    /\ Fetching
    /\ HasNext(ctxs[active])
    /\ LET ins == Fetch(ctxs[active])
           fn == bottom_of_stack(ctxs[active], ins)
       IN  /\ ins.opname = "CALL_FUNCTION"
           /\ Len(ctxs[active].stack) >= ins.arg + 1
           /\ ~IsNative(fn)
           /\ ~IsInterpreted(fn)
           /\ Commit(Suspend(Advance(World, active), active))
           /\ current_instruction' = ins
           /\ hist' = Did("notcallable", active, ins)
    /\ active' = 0
    /\ ret' = Outcome("raise", 0, "TypeError")
    /\ UNCHANGED <<current_context, call, misuse>>

\* Lines 146-153: the opcode has a handler, which runs.
LoopHandler ==
    /\ Fetching
    /\ HasNext(ctxs[active])
    /\ LET ins == Fetch(ctxs[active])
           r == Handle(Advance(World, active), active, ins)
       IN  /\ ins.opname # "CALL_FUNCTION"
           /\ ins.opname \in Handlers
           /\ r.exc = "none"
           /\ Commit(r.w)
           /\ current_instruction' = ins
           /\ hist' = Did("handler", active, ins)
    /\ UNCHANGED <<current_context, active, ret, call, misuse>>

\* Lines 146-153: the handler raises a host exception, which leaves run_context.
LoopHandlerFault ==
    /\ Fetching
    /\ HasNext(ctxs[active])
    /\ LET ins == Fetch(ctxs[active])
           r == Handle(Advance(World, active), active, ins)
       IN  /\ ins.opname # "CALL_FUNCTION"
           /\ ins.opname \in Handlers
           /\ r.exc # "none"
           /\ Commit(r.w)
           /\ current_instruction' = ins
           /\ hist' = Did("handlerfault", active, ins)
           /\ ret' = Outcome("raise", 0, r.exc)
    /\ active' = 0
    /\ UNCHANGED <<current_context, call, misuse>>

\* Lines 147-150: no handler for the opcode: NotImplementedError leaves run_context.
LoopUnsupported ==
    /\ Fetching
    /\ HasNext(ctxs[active])
    /\ LET ins == Fetch(ctxs[active])
       IN  /\ ins.opname # "CALL_FUNCTION"
           /\ ins.opname \notin Handlers
           /\ Commit(Advance(World, active))
           /\ current_instruction' = ins
           /\ hist' = Did("unsupported", active, ins)
    /\ active' = 0
    /\ ret' = Outcome("raise", 0, "NotImplementedError")
    /\ UNCHANGED <<current_context, call, misuse>>

\* run_context called by the driver of the design.
Next ==
    \/ \E f \in 1..Len(ctxs) : DriverRun(f)
    \/ LoopFinished
    \/ LoopErrored
    \/ LoopFetchFault
    \/ LoopCallStackFault
    \/ LoopCallNative
    \/ LoopCallSwitch
    \/ LoopCallNotCallable
    \/ LoopHandler
    \/ LoopHandlerFault
    \/ LoopUnsupported

Spec == Init /\ [][Next]_vars

\* Any run_context call on a frame that exists, at most MaxMisuse of them on
\* frames the driver of the design would not hand over.
AnyNext ==
    \/ \E f \in 1..Len(ctxs) : MisuseRun(f)
    \/ Next

AnySpec == Init /\ [][AnyNext]_vars


----------------------------------------------------------------------------
\* Properties.

Frames == 1..Len(ctxs)

\* The last loop iteration fetched a CALL_FUNCTION whose operands were on the stack.
CallSeen ==
    /\ hist.ins.opname = "CALL_FUNCTION"
    /\ Len(hist.pre[hist.ctx].stack) >= hist.ins.arg + 1

\* The value STACK[-(arg + 1)] that CALL_FUNCTION found.
CalleeSeen == hist.pre[hist.ctx].stack[Len(hist.pre[hist.ctx].stack) - hist.ins.arg]

\* The callees that are native: builtins, _native_invoke callables, and classes
\* that inherit the builtin object.__new__.
NativeCallee(v) == v.t \in {"builtin", "nativefn"} \/ v = TypeV

\* The callees that run in a frame of their own: functions, wrapped functions,
\* and classes whose __new__ is a Python function.
InterpretedCallee(v) == v.t \in {"function", "wrapped"} \/ (v.t = "type" /\ v # TypeV)

(* C1: run_context on a frame that is already FINISHED or ERRORED is a no-op:
   it returns None and leaves the frame's state, pointer, operand stack and
   callbacks as they were. *)
C1_TerminalRunIsNoop ==
    (call.ctx # 0 /\ call.frame.state \in Terminal) =>
        /\ ctxs[call.ctx].state = call.frame.state
        /\ ctxs[call.ctx].pointer = call.frame.pointer
        /\ ctxs[call.ctx].stack = call.frame.stack
        /\ ctxs[call.ctx].fired = call.frame.fired
        /\ active = 0 => ret = Outcome("none", 0, "none")

(* C2: a CALL_FUNCTION n of an interpreted callable pops exactly n + 1 values
   off the calling frame, creates exactly one new frame, and returns it with
   the calling frame SUSPENDED. *)
C2_InterpretedCallSwitches ==
    (CallSeen /\ InterpretedCallee(CalleeSeen)) =>
        LET f == hist.ctx
            pre == hist.pre[f]
        IN  /\ ctxs[f].stack = SubSeq(pre.stack, 1, Len(pre.stack) - (hist.ins.arg + 1))
            /\ Len(ctxs) = Len(hist.pre) + 1
            /\ \A g \in 1..Len(hist.pre) : g # f => ctxs[g] = hist.pre[g]
            /\ active = 0
            /\ ret = Outcome("ctx", Len(ctxs), "none")
            /\ ctxs[f].state = "SUSPENDED"

C2_Witness ==
    /\ CallSeen
    /\ CalleeSeen.t = "function"
    /\ hist.ins.arg = 1
    /\ ret.kind = "ctx"

(* C3: a CALL_FUNCTION of a native callable changes no caller or callee link,
   creates no frame, and does not leave run_context: the loop goes on with the
   next instruction of the same frame. *)
C3_NativeCallStaysInLoop ==
    (CallSeen /\ NativeCallee(CalleeSeen)) =>
        LET f == hist.ctx
            pre == hist.pre[f]
        IN  /\ Len(ctxs) = Len(hist.pre)
            /\ \A g \in Frames : /\ ctxs[g].prev_ctx = hist.pre[g].prev_ctx
                                 /\ ctxs[g].next_ctx = hist.pre[g].next_ctx
            /\ active = f
            /\ ret.kind = "running"
            /\ ctxs[f].state = "RUNNING"
            /\ ctxs[f].pointer = pre.pointer + 1

C3_Witness ==
    /\ CallSeen
    /\ CalleeSeen = NativeFnV
    /\ active = hist.ctx
    /\ ctxs[hist.ctx].stack = Append(Drop(hist.pre[hist.ctx].stack, 2), IntV(1))


\* The root of the call chain a frame belongs to, by its prev_ctx links.
RECURSIVE RootOf(_)
RootOf(f) == IF ctxs[f].prev_ctx = 0 THEN f ELSE RootOf(ctxs[f].prev_ctx)

Running == {f \in Frames : ctxs[f].state = "RUNNING"}

(* C4: in every reachable state at most one frame is RUNNING, whatever the
   number of root frames and call chains. *)
C4_AtMostOneRunning == Cardinality(Running) <= 1

(* C4, amended: the engine has one current frame, and of the frames of one call
   chain (a root frame and the frames spawned from it) at most one is RUNNING;
   frames of different chains can be RUNNING together. *)
C4_OneRunningPerChain ==
    /\ active # 0 => current_context = active
    /\ \A f, g \in Running : RootOf(f) = RootOf(g) => f = g

C4_Witness ==
    \E f, g \in Running :
        /\ RootOf(f) # RootOf(g)
        /\ ctxs[f].next_ctx # 0
        /\ ctxs[ctxs[f].next_ctx].state = "FINISHED"
        /\ ctxs[g].prev_ctx # 0

LegalEdges ==
    {<<"PENDING", "RUNNING">>, <<"RUNNING", "SUSPENDED">>, <<"RUNNING", "FINISHED">>,
     <<"RUNNING", "ERRORED">>, <<"SUSPENDED", "RUNNING">>}

(* C5: every change of a frame's state is one of the five legal edges; no
   frame leaves FINISHED or ERRORED. *)
C5_LegalEdges == edges \subseteq LegalEdges

(* C6: when a callee frame reaches FINISHED, its result callback pushes exactly
   one value, the result, on the caller's operand stack, and the caller goes
   from SUSPENDED to RUNNING. *)
C6_ResultResumesSuspendedCaller ==
    (hist.op = "finished" /\ hist.pre[hist.ctx].prev_ctx # 0) =>
        LET g == hist.ctx
            c == hist.pre[g].prev_ctx
        IN  /\ ctxs[c].stack = Append(hist.pre[c].stack, hist.pre[g].result)
            /\ hist.pre[c].state = "SUSPENDED"
            /\ ctxs[c].state = "RUNNING"

\* The calls of a frame's exception callbacks so far.
Deliveries(g) == {i \in 1..Len(ctxs[g].fired) : ctxs[g].fired[i].kind = "exception"}

(* C7: a fault raised on a callee frame is delivered to the caller's fault
   channel by the exception callback the engine registered, exactly once per
   fault: never zero times, never more than once. *)
C7_FaultDeliveredOnce ==
    \A g \in Frames :
        ctxs[g].prev_ctx # 0 =>
            /\ Cardinality(Deliveries(g)) = ctxs[g].raised
            /\ \A i \in Deliveries(g) : ctxs[g].fired[i].dst = ctxs[g].prev_ctx
            /\ ctxs[g].state = "ERRORED" => ctxs[g].raised >= 1
            /\ ctxs[g].raised >= 1 =>
                  /\ ctxs[ctxs[g].prev_ctx].raised >= ctxs[g].raised
                  /\ ctxs[ctxs[g].prev_ctx].fault = "PropagatedFault"

C7_Witness ==
    \E g \in Frames :
        /\ ctxs[g].prev_ctx # 0
        /\ ctxs[g].state = "ERRORED"
        /\ Cardinality(Deliveries(g)) = 1
        /\ ctxs[ctxs[g].prev_ctx].state = "ERRORED"

(* C8: a CALL_FUNCTION of a value that is not invokable at all leaves the
   calling frame ERRORED with a NotCallable fault delivered through safe_raise,
   and no host exception leaves run_context. *)
C8_NotCallableErrorsFrame ==
    (CallSeen /\ CalleeSeen.t \in {"int", "none", "instance"}) =>
        /\ ctxs[hist.ctx].state = "ERRORED"
        /\ ctxs[hist.ctx].fault = "NotCallable"
        /\ ret.kind # "raise"

(* C9: an opcode with no handler makes run_context fail with
   NotImplementedError, and the frame is not RUNNING afterwards. *)
C9_UnsupportedNotRunning ==
    (hist.ins # NoInstruction /\ hist.ins.opname \notin Handlers \cup {"CALL_FUNCTION"}) =>
        /\ ret = Outcome("raise", 0, "NotImplementedError")
        /\ ctxs[hist.ctx].state # "RUNNING"

\* The arguments CALL_FUNCTION found above the callee, in the order pushed.
ArgsSeen ==
    LET st == hist.pre[hist.ctx].stack
    IN  SubSeq(st, Len(st) - hist.ins.arg + 1, Len(st))

(* C10: when a native callable raises, the fault goes to the frame's fault
   channel, no value is pushed as the call's result, and the ERRORED frame's
   operand stack is not modified further. *)
C10_NativeFaultFreezesFrame ==
    (CallSeen /\ CalleeSeen.t = "builtin" /\ ~Invoke(CalleeSeen, ArgsSeen).ok) =>
        LET f == hist.ctx
            pre == hist.pre[f]
        IN  /\ ctxs[f].raised = pre.raised + 1
            /\ ctxs[f].stack = Drop(pre.stack, hist.ins.arg + 1)
            /\ ctxs[f].state = "ERRORED"


(* C11: when a root frame calls an interpreted function whose frame faults
   inside a native call, that frame ends ERRORED and runs no further, and the
   root frame ends ERRORED with the propagated fault: it is never RUNNING or
   FINISHED afterwards. *)
C11_NativeFaultInCalleeErrorsRoot ==
    \A g \in Frames :
        (/\ ctxs[g].prev_ctx # 0
         /\ ctxs[ctxs[g].prev_ctx].prev_ctx = 0
         /\ ctxs[g].fault = "NativeInvocationFault") =>
            /\ ctxs[g].state = "ERRORED"
            /\ ctxs[ctxs[g].prev_ctx].state = "ERRORED"
            /\ ctxs[ctxs[g].prev_ctx].fault = "PropagatedFault"


\* Well-formed streams: the operands every instruction needs are on the stack
\* (nothing runs after a RETURN_VALUE or a RAISE_VARARGS), and the stream ends
\* with RETURN_VALUE.
Needs(ins) ==
    CASE ins.opname = "CALL_FUNCTION" -> ins.arg + 1
      [] ins.opname \in {"POP_TOP", "RETURN_VALUE", "RAISE_VARARGS"} -> 1
      [] OTHER -> 0

Leaves(ins) ==
    CASE ins.opname = "CALL_FUNCTION" -> 0 - ins.arg
      [] ins.opname \in {"POP_TOP", "RETURN_VALUE", "RAISE_VARARGS"} -> 0 - 1
      [] ins.opname \in {"LOAD_CONST", "LOAD_FAST"} -> 1
      [] OTHER -> 0

RECURSIVE SafeFrom(_, _, _)
SafeFrom(code, i, depth) ==
    \/ i > Len(code)
    \/ /\ depth >= Needs(code[i])
       /\ \/ code[i].opname \in {"RETURN_VALUE", "RAISE_VARARGS"}
          \/ SafeFrom(code, i + 1, depth + Leaves(code[i]))

StackSafe(p) ==
    /\ Len(Code(p)) > 0
    /\ Code(p)[Len(Code(p))].opname = "RETURN_VALUE"
    /\ SafeFrom(Code(p), 1, 0)

\* Well-formed streams with no call opcode: every opcode has a handler.
WellFormedNoCall(p) ==
    /\ StackSafe(p)
    /\ \A i \in 1..Len(Code(p)) : Code(p)[i].opname \in Handlers

(* C12: run_context on a PENDING frame over a well-formed stream with no call
   opcode returns None with the frame FINISHED or ERRORED; outside that call
   the frame is never RUNNING or SUSPENDED. *)
C12_NoCallStreamEndsTerminal ==
    \A f \in Frames :
        WellFormedNoCall(ctxs[f].code) =>
            /\ active # f => ctxs[f].state \in {"PENDING", "FINISHED", "ERRORED"}
            /\ (call.ctx = f /\ active = 0) =>
                  /\ call.frame.state = "PENDING"
                  /\ ctxs[f].state \in Terminal
                  /\ ret = Outcome("none", 0, "none")

C12_Witness ==
    \E f \in Frames :
        /\ ctxs[f].code = 18
        /\ call.ctx = f
        /\ active = 0
        /\ ctxs[f].state = "FINISHED"
        /\ ctxs[f].result = IntV(1)


(* C13: each callback registered on a frame fires at most once over the frame's
   lifetime, callbacks of one list fire in registration order, and none fires
   before the frame is FINISHED or ERRORED. *)
C13_CallbacksFireOnce ==
    \A g \in Frames :
        LET fi == ctxs[g].fired
        IN  /\ \A i, j \in DOMAIN fi :
                  (fi[i].kind = fi[j].kind /\ fi[i].idx = fi[j].idx) => i = j
            /\ \A i, j \in DOMAIN fi :
                  (fi[i].kind = fi[j].kind /\ i < j) => fi[i].idx < fi[j].idx
            /\ \A i \in DOMAIN fi : fi[i].srcstate \in Terminal

(* C14: a native call with argument count n pops the n arguments and the
   callee, invokes the callee with the arguments in the order they were pushed,
   and pushes exactly the value returned: the stack is the old stack without
   its top n + 1 entries, plus the result (so [add, 2, 3] becomes [5]). *)
C14_NativeCallStackEffect ==
    (/\ CallSeen
     /\ NativeCallee(CalleeSeen)
     /\ Invoke(CalleeSeen, ArgsSeen).ok) =>
        LET pre == hist.pre[hist.ctx].stack
            n == hist.ins.arg
        IN  /\ ctxs[hist.ctx].stack = Append(Drop(pre, n + 1), Invoke(CalleeSeen, ArgsSeen).val)
            /\ Len(ctxs[hist.ctx].stack) = Len(pre) - n
            /\ (CalleeSeen = BuiltinV(1) /\ ArgsSeen = <<IntV(2), IntV(3)>> /\ Len(pre) = n + 1)
                   => ctxs[hist.ctx].stack = <<IntV(5)>>

C14_Witness ==
    /\ CallSeen
    /\ hist.ins.arg = 2
    /\ CalleeSeen = BuiltinV(3)
    /\ ArgsSeen = <<IntV(5), IntV(3)>>
    /\ ctxs[hist.ctx].stack = <<IntV(2)>>

(* C15: only the interpreted call suspends.  Whenever run_context has returned
   or exited (normally or by a fault) with the dispatched frame SUSPENDED, it
   has returned a new PENDING frame whose caller link is the dispatched frame,
   which is the dispatched frame's callee link and carries its callbacks; and
   run_context returns a frame in no other case.  Stated for the streams whose
   operands are always on the stack. *)
C15_SuspendedOnlyWithCallee ==
    (active = 0 /\ call.ctx # 0 /\ StackSafe(ctxs[call.ctx].code)) =>
        /\ ctxs[call.ctx].state = "SUSPENDED" =>
              /\ ret.kind = "ctx"
              /\ ret.ctx \in Frames
              /\ ctxs[ret.ctx].state = "PENDING"
              /\ ctxs[ret.ctx].prev_ctx = call.ctx
              /\ ctxs[call.ctx].next_ctx = ret.ctx
              /\ ctxs[ret.ctx].done_callbacks = <<call.ctx>>
              /\ ctxs[ret.ctx].exception_callbacks = <<call.ctx>>
        /\ ret.kind = "ctx" => ctxs[call.ctx].state = "SUSPENDED"

\* The frame reached from f by following k caller links (0 when the chain ends).
RECURSIVE CallerAt(_, _)
CallerAt(f, k) ==
    IF f = 0 \/ k = 0 THEN f ELSE CallerAt(ctxs[f].prev_ctx, k - 1)

\* The frames whose caller link is f.
Callees(f) == {g \in Frames : ctxs[g].prev_ctx = f}

(* C16: the caller and callee links form chains: a frame has at most one direct
   caller and at most one callee that is not terminal, a frame's callee link c
   has c's caller link pointing back at the frame, and following caller links
   never returns to the frame it started from. *)
C16_LinksFormChains ==
    \A f \in Frames :
        /\ ctxs[f].prev_ctx \in Frames \cup {0}
        /\ ctxs[f].next_ctx \in Frames \cup {0}
        /\ Cardinality({g \in Callees(f) : ctxs[g].state \notin Terminal}) <= 1
        /\ ctxs[f].next_ctx # 0 => ctxs[ctxs[f].next_ctx].prev_ctx = f
        /\ \A g \in Callees(f) : ctxs[g].state \notin Terminal => ctxs[f].next_ctx = g
        /\ \A k \in 1..Len(ctxs) : CallerAt(f, k) # f

C16_Witness ==
    \E f, g, h \in Frames :
        /\ g # h
        /\ {g, h} \subseteq Callees(f)
        /\ ctxs[g].state = "FINISHED"
        /\ ctxs[h].state = "PENDING"
        /\ ctxs[f].next_ctx = h
        /\ \E d \in Frames : ctxs[d].prev_ctx # 0 /\ ctxs[ctxs[d].prev_ctx].prev_ctx # 0

(* C17: on an interpreted call with argument count n the new frame's arguments
   are exactly the top n values of the caller's stack in the order they were
   pushed, the new frame runs the callee found n entries below the top, and
   the caller's stack below those n + 1 entries is unchanged. *)
C17_InterpretedCallArguments ==
    (CallSeen /\ InterpretedCallee(CalleeSeen)) =>
        LET f == hist.ctx
            pre == hist.pre[f].stack
            n == hist.ins.arg
            new == ctxs[f].next_ctx
        IN  /\ new \in Frames \ DOMAIN hist.pre
            /\ ctxs[new].args = ArgsSeen
            /\ ctxs[new].code = CalleeSeen.v
            /\ ctxs[f].stack = SubSeq(pre, 1, Len(pre) - (n + 1))

C17_Witness ==
    /\ CallSeen
    /\ hist.ins.arg = 2
    /\ CalleeSeen = WrappedV(20)
    /\ ctxs[ctxs[hist.ctx].next_ctx].args = <<IntV(7), IntV(3)>>
    /\ ctxs[hist.ctx].stack = <<IntV(2)>>

(* C18: a caller suspended by a call is not RUNNING and executes no instruction
   while the callee that call spawned is PENDING, RUNNING or SUSPENDED; it is
   resumed only after that callee is FINISHED or ERRORED. *)
C18_CallerWaitsForCallee ==
    \A f \in Frames :
        LET g == ctxs[f].next_ctx
        IN  (g # 0 /\ ctxs[g].state \notin Terminal) =>
                /\ ctxs[f].state # "RUNNING"
                /\ active # f
                /\ (hist.ctx = f /\ hist.op # "enter") => g \notin DOMAIN hist.pre

C18_Witness ==
    \E f \in Frames :
        LET g == ctxs[f].next_ctx
        IN  /\ g # 0
            /\ ctxs[f].state = "SUSPENDED"
            /\ ctxs[g].state = "RUNNING"
            /\ active = g
            /\ hist.ctx = g
            /\ hist.op = "handler"

\* The longest call chain the streams can build (6 calls 2, which calls 8).
MaxChain == 3

\* A fair driver: a started run_context keeps stepping, and every frame that is
\* PENDING or RUNNING again and again is eventually dispatched.
FairSpec ==
    /\ Init
    /\ [][Next]_vars
    /\ WF_vars(Next)
    /\ \A f \in 1..(MaxRoots * MaxChain) : SF_vars(DriverRun(f))

\* Every root frame whose stream keeps its operands on the stack is terminal.
RootsTerminal ==
    \A f \in Frames :
        (ctxs[f].prev_ctx = 0 /\ StackSafe(ctxs[f].code)) => ctxs[f].state \in Terminal

(* C19: under a fair driver that requeues every returned frame and dispatches
   again the frames a callback flipped to RUNNING, every root frame of a finite
   call chain without loops eventually reaches FINISHED or ERRORED for good. *)
C19_RootsEventuallyTerminal == <>[]RootsTerminal

====
